---- MODULE Spec2Model ----
(***************************************************************************)
(* Memory typing trainer (src/src/App.jsx): the text functions normalize,  *)
(* splitWords, calcStats and Highlighter, and the session of the           *)
(* MemoryTypingTrainer component: its useState cells, the useTimer         *)
(* interval, the three localStorage effects and the click/change handlers. *)
(* The effects of a commit run at its end or in a later step of their own, *)
(* and so does the render of an update made by the interval callback.      *)
(*                                                                         *)
(* A text is a sequence of characters; a character is a one-character      *)
(* string, except the invisible ones, which are written by name:           *)
(*   "ZWSP" U+200B, "ZWNJ" U+200C, "ZWJ" U+200D, "BOM" U+FEFF,             *)
(*   "NBSP" U+00A0, "TAB" U+0009, "LF" U+000A.                             *)
(***************************************************************************)
EXTENDS Integers, Sequences, FiniteSets, TLC

VARIABLES
  reference,   \* useState cell `reference`
  attempt,     \* useState cell `attempt`
  hidden,      \* useState cell `hidden`
  started,     \* useState cell `started`
  opts,        \* useState cell `opts`: [ignoreCase, ignorePunc]
  seconds,     \* useState cell `seconds` of useTimer
  queued,      \* TRUE while a setSeconds((s) => s + 1) of the interval callback
               \* is in the update queue of `seconds`, not rendered yet
  lang,        \* useState cell `lang`
  hideWords,   \* useState cell `hideWords`
  showFeedback, \* useState cell `showFeedback`
  interval,    \* TRUE while the setInterval of useTimer is registered
  pending,     \* the passive effects the last commit scheduled and React has
               \* not run yet: [reference, attempt, lang, timer]
  storage,     \* localStorage: key -> [has, value], has FALSE for a key never set
  quota,       \* how many characters localStorage holds before setItem throws
  mounted,     \* FALSE once an effect has thrown and React has unmounted the tree
  stats,       \* the useMemo value calcStats(reference, attempt, opts)
  nodes,       \* what Highlighter rendered: one [word, state] per raw reference
               \* word; empty while the feedback is not shown
  last         \* history: the event that led here and what the state was before it

vars == <<reference, attempt, hidden, started, opts, seconds, queued, lang,
          hideWords, showFeedback, interval, pending, storage, quota, mounted,
          stats, nodes, last>>

(***************************************************************************)
(* Bounds of the model.                                                    *)
(***************************************************************************)
MaxLen == 3        \* longest enumerated text given to calcStats / Highlighter
MaxEditLen == 1    \* longest text typed into a textarea of the session
MaxSeconds == 1    \* ticks counted before the model stops the clock
MaxWords == 3      \* most words of a text when two attempts are compared

(***************************************************************************)
(* Character classes of the regular expressions and of toLowerCase.        *)
(***************************************************************************)
ZeroWidthChars == {"ZWSP", "ZWNJ", "ZWJ", "BOM"}

PunctChars == {",", ".", "!", "?", "#", "-", "'", ";", ":", "+", "$"}

WhitespaceChars == {" ", "TAB", "LF", "NBSP", "BOM"}

UpperLetters == <<"A", "B", "C", "D", "E", "F", "G", "H", "I", "J", "K", "L", "M",
                  "N", "O", "P", "Q", "R", "S", "T", "U", "V", "W", "X", "Y", "Z">>

LowerLetters == <<"a", "b", "c", "d", "e", "f", "g", "h", "i", "j", "k", "l", "m",
                  "n", "o", "p", "q", "r", "s", "t", "u", "v", "w", "x", "y", "z">>

LowerOf == [c \in {UpperLetters[i] : i \in 1..Len(UpperLetters)} |->
              LowerLetters[CHOOSE i \in 1..Len(UpperLetters) : UpperLetters[i] = c]]

toLowerCaseChar(c) == IF c \in DOMAIN LowerOf THEN LowerOf[c] ELSE c

\* s.replace(/[class]/g, ""): every character of the class is removed
RemoveChars(s, class) == SelectSeq(s, LAMBDA c : c \notin class)

(***************************************************************************)
(* Utility functions.                                                      *)
(***************************************************************************)
sanitize(text) == RemoveChars(text, ZeroWidthChars)

stripPunctuation(s) == RemoveChars(s, PunctChars)

toLowerCase(s) == [i \in 1..Len(s) |-> toLowerCaseChar(s[i])]

normalize(s, o) ==
  LET out1 == sanitize(s)
      out2 == IF o.ignorePunc THEN stripPunctuation(out1) ELSE out1
      out3 == IF o.ignoreCase THEN toLowerCase(out2) ELSE out2
  IN out3

First(idx) == CHOOSE i \in idx : \A j \in idx : i <= j

\* the elements of a set of numbers, in increasing order
RECURSIVE Ascending(_)
Ascending(idx) ==
  IF idx = {} THEN <<>>
  ELSE LET m == First(idx) IN <<m>> \o Ascending(idx \ {m})

IsSpace(s, i) == s[i] \in WhitespaceChars

\* s.trim(): the text from its first to its last character that is not
\* whitespace
trim(s) ==
  LET n == Len(s)
  IN IF \A i \in 1..n : IsSpace(s, i) THEN <<>>
     ELSE SubSeq(s,
                 CHOOSE i \in 1..n :
                   ~IsSpace(s, i) /\ \A j \in 1..(i - 1) : IsSpace(s, j),
                 CHOOSE i \in 1..n :
                   ~IsSpace(s, i) /\ \A j \in (i + 1)..n : IsSpace(s, j))

\* s.split(/\s+/): the pieces between the maximal runs of whitespace, one
\* more than there are runs; a piece is empty where a run begins or ends
\* the text, and the empty text is one empty piece
splitOnWhitespace(s) ==
  LET n == Len(s)
      runFrom == Ascending({i \in 1..n : IsSpace(s, i)
                                         /\ (i = 1 \/ ~IsSpace(s, i - 1))})
      runTo == Ascending({i \in 1..n : IsSpace(s, i)
                                       /\ (i = n \/ ~IsSpace(s, i + 1))})
      from == <<1>> \o [k \in 1..Len(runTo) |-> runTo[k] + 1]
      to == [k \in 1..Len(runFrom) |-> runFrom[k] - 1] \o <<n>>
  IN [k \in 1..Len(from) |-> SubSeq(s, from[k], to[k])]

\* .filter(Boolean): the empty string is falsy
filterBoolean(ws) == SelectSeq(ws, LAMBDA w : w # <<>>)

splitWords(s) == filterBoolean(splitOnWhitespace(trim(s)))

Min(a, b) == IF a <= b THEN a ELSE b

Max(a, b) == IF a >= b THEN a ELSE b

(***************************************************************************)
(* Math.round((correct / total) * 100) in IEEE-754 binary64.  A positive   *)
(* double is [sig, exp], its value sig * 2^(exp - 52); sig is written as   *)
(* five limbs <<l1, l2, l3, l4, l5>>, l2..l5 of 13 bits each below l1, so  *)
(* that l1 = 1 for a significand of 53 bits.  The quotient and the product *)
(* are each rounded to 53 significant bits, ties to even.  For             *)
(* 0 <= correct <= total < 2^18.                                           *)
(***************************************************************************)
Limb == 8192

RECURSIVE Pow2(_)
Pow2(k) == IF k = 0 THEN 1 ELSE 2 * Pow2(k - 1)

\* the k with total <= correct * 2^k < 2 * total: the quotient is in
\* [2^-k, 2^(1-k))
RECURSIVE binade(_, _)
binade(c, t) == IF c >= t THEN 0 ELSE 1 + binade(2 * c, t)

\* the limbs with what exceeds 13 bits carried into the limb above
carry(l) ==
  LET l5 == l[5]
      l4 == l[4] + l5 \div Limb
      l3 == l[3] + l4 \div Limb
      l2 == l[2] + l3 \div Limb
      l1 == l[1] + l2 \div Limb
  IN <<l1, l2 % Limb, l3 % Limb, l4 % Limb, l5 % Limb>>

\* correct / total: long division to 53 bits, the remainder decides the
\* rounding
divide(c, t) ==
  LET k == binade(c, t)
      r0 == c * Pow2(k) - t
      d1 == (r0 * Limb) \div t
      r1 == (r0 * Limb) % t
      d2 == (r1 * Limb) \div t
      r2 == (r1 * Limb) % t
      d3 == (r2 * Limb) \div t
      r3 == (r2 * Limb) % t
      d4 == (r3 * Limb) \div t
      r4 == (r3 * Limb) % t
      up == 2 * r4 > t \/ (2 * r4 = t /\ d4 % 2 = 1)
  IN [sig |-> carry(<<1, d1, d2, d3, d4 + (IF up THEN 1 ELSE 0)>>),
      exp |-> 0 - k]

\* q * 100: the exact product has 59 or 60 bits, of which the lowest 6 or
\* 7 are rounded away
times100(q) ==
  LET p == carry([i \in 1..5 |-> 100 * q.sig[i]])
      drop == IF p[1] < 128 THEN 64 ELSE 128
      low == p[5] % drop
      kept == p[5] - low
      up == 2 * low > drop \/ (2 * low = drop /\ (kept \div drop) % 2 = 1)
  IN [sig |-> carry(<<p[1], p[2], p[3], p[4], kept + (IF up THEN drop ELSE 0)>>),
      exp |-> q.exp]

\* Math.round(p) = floor(p + 1/2), for p.exp <= 0: the whole part, and one
\* more when the bit worth 1/2 is set
MathRound(p) ==
  LET k == 0 - p.exp
      whole == p.sig[1] \div Pow2(k)
      half == IF k = 0 THEN p.sig[2] \div (Limb \div 2)
              ELSE (p.sig[1] \div Pow2(k - 1)) % 2
  IN whole + half

\* Math.round((correct / total) * 100); 0 / total is 0, and 0 * 100 is 0
roundPercent(correct, total) ==
  IF correct = 0 THEN 0 ELSE MathRound(times100(divide(correct, total)))

\* the for loop of calcStats: i runs over 1..n, counting the equal words
RECURSIVE countCorrect(_, _, _, _)
countCorrect(refWords, attWords, i, n) ==
  IF i > n THEN 0
  ELSE (IF refWords[i] = attWords[i] THEN 1 ELSE 0)
       + countCorrect(refWords, attWords, i + 1, n)

\* a calcStats that takes the percentage of the words typed, not of the
\* reference words
calcStats_OfTyped(ref, att, o) ==
  LET refWords == splitWords(normalize(ref, o))
      attWords == splitWords(normalize(att, o))
      total == IF Len(attWords) # 0 THEN Len(attWords) ELSE 1
      correct == countCorrect(refWords, attWords, 1,
                              Min(Len(refWords), Len(attWords)))
  IN [accuracy |-> Max(0, Min(100, roundPercent(correct, total))),
      wordsTyped |-> Len(attWords), totalWords |-> Len(refWords)]

calcStats(ref, att, o) ==
  LET refN == normalize(ref, o)
      attN == normalize(att, o)
      refWords == splitWords(refN)
      attWords == splitWords(attN)
      total == IF Len(refWords) # 0 THEN Len(refWords) ELSE 1
      correct == countCorrect(refWords, attWords, 1,
                              Min(Len(refWords), Len(attWords)))
      accuracy == Max(0, Min(100, roundPercent(correct, total)))
  IN [accuracy |-> accuracy, wordsTyped |-> Len(attWords),
      totalWords |-> Len(refWords)]

\* refNWords[i] ?? "": the word at index i, or the empty string past the end
wordAt(ws, i) == IF i <= Len(ws) THEN ws[i] ELSE <<>>

nodeState(refN, attN) ==
  LET match == refN # <<>> /\ refN = attN
  IN IF attN = <<>> THEN "missing" ELSE IF match THEN "ok" ELSE "no"

Highlighter(ref, att, o, hide) ==
  LET refRawWords == splitWords(ref)
      refNWords == splitWords(normalize(ref, o))
      attNWords == splitWords(normalize(att, o))
  IN [i \in 1..Len(refRawWords) |->
        [word |-> IF hide THEN [k \in 1..Len(refRawWords[i]) |-> "NBSP"]
                  ELSE refRawWords[i],
         state |-> nodeState(wordAt(refNWords, i), wordAt(attNWords, i))]]

(***************************************************************************)
(* The texts the model works with.                                         *)
(***************************************************************************)
RECURSIVE TextsUpTo(_, _)
TextsUpTo(alphabet, n) ==
  IF n = 0 THEN {<<>>}
  ELSE LET shorter == TextsUpTo(alphabet, n - 1)
       IN shorter \cup {Append(t, c) : t \in shorter, c \in alphabet}

\* the initial value of `reference` when nothing is stored
DefaultRef ==
  <<"T", "h", "e", " ", "q", "u", "i", "c", "k", " ", "b", "r", "o", "w", "n", " ",
    "f", "o", "x", " ", "j", "u", "m", "p", "s", " ", "o", "v", "e", "r", " ",
    "t", "h", "e", " ", "l", "a", "z", "y", " ", "d", "o", "g", ".", " ",
    "T", "r", "y", " ", "t", "o", " ", "m", "e", "m", "o", "r", "i", "z", "e", " ",
    "t", "h", "i", "s", " ", "t", "e", "x", "t", ",", " ", "t", "h", "e", "n", " ",
    "h", "i", "d", "e", " ", "i", "t", " ", "a", "n", "d", " ", "t", "y", "p", "e", " ",
    "i", "t", " ", "f", "r", "o", "m", " ", "m", "e", "m", "o", "r", "y", " ",
    "b", "e", "l", "o", "w", ".">>

DefaultAttempt == <<>>

LangEn == <<"e", "n">>

LangVi == <<"v", "i">>

DefaultOpts == [ignoreCase |-> TRUE, ignorePunc |-> FALSE]

AllOpts == [ignoreCase : BOOLEAN, ignorePunc : BOOLEAN]

\* the texts of the self tests (runSelfTests) and of the spec's examples
OneTwoThree == <<"o", "n", "e", " ", "t", "w", "o", " ", "t", "h", "r", "e", "e">>

OneTwo == <<"o", "n", "e", " ", "t", "w", "o">>

HelloWorld == <<"H", "e", "l", "l", "o", " ", "w", "o", "r", "l", "d">>

HelloWORLD == <<"h", "e", "l", "l", "o", " ", "W", "O", "R", "L", "D">>

HiThere == <<"H", "i", ",", " ", "t", "h", "e", "r", "e", "!">>

ADashB == <<"a", " ", "-", " ", "b">>

AZwspB == <<"A", " ", "ZWSP", " ", "B">>

ABomB == <<"a", "BOM", "b">>

AZwsp == <<"a", "ZWSP">>

Zwsp == <<"ZWSP">>

\* n times the word w, one space between two words
RECURSIVE Repeated(_, _)
Repeated(w, n) ==
  IF n = 0 THEN <<>>
  ELSE IF n = 1 THEN w ELSE Repeated(w, n - 1) \o <<" ">> \o w

\* a reference of 40 words and its first 23: 23 / 40 * 100 is 57.5, and in
\* doubles 57.49999999999999
FortyWords == Repeated(<<"w">>, 40)

TwentyThreeWords == Repeated(<<"w">>, 23)

\* a reference of 8 words and its first: 1 / 8 * 100 is 12.5 in doubles too
EightWords == Repeated(<<"w">>, 8)

OneWord == Repeated(<<"w">>, 1)

SampleTexts == {OneTwoThree, OneTwo, HelloWorld, HelloWORLD, HiThere, ADashB,
                AZwspB, ABomB, AZwsp, Zwsp, FortyWords, TwentyThreeWords,
                EightWords, OneWord}

PureAlphabet == {"a", "A", ",", " "}

\* what calcStats and Highlighter are given
PureTexts == TextsUpTo(PureAlphabet, MaxLen) \cup SampleTexts

EditAlphabet == {"a"}

\* what the user types into a textarea (e.target.value)
SessionTexts == TextsUpTo(EditAlphabet, MaxEditLen)

(***************************************************************************)
(* localStorage.  getItem gives null for a key never set; setItem throws   *)
(* QuotaExceededError when the stored characters would exceed the quota.   *)
(***************************************************************************)
Keys == {"memref", "memattempt", "memlang"}

EmptyStorage == [k \in Keys |-> [has |-> FALSE, value |-> <<>>]]

Used(st) == Len(st["memref"].value) + Len(st["memattempt"].value)
            + Len(st["memlang"].value)

\* localStorage.getItem(k) || dflt : null and the empty string are both falsy
getItemOr(st, k, dflt) ==
  IF st[k].has /\ st[k].value # <<>> THEN st[k].value ELSE dflt

\* localStorage.setItem(k, v) on w = [store, threw]
setItem(w, k, v, q) ==
  IF Used(w.store) - Len(w.store[k].value) + Len(v) > q
  THEN [store |-> w.store, threw |-> TRUE]
  ELSE [store |-> [w.store EXCEPT ![k] = [has |-> TRUE, value |-> v]],
        threw |-> w.threw]

\* the three storage effects, each run when its dependency changed; React
\* runs every effect of the commit even when an earlier one threw
storageEffects(st, n, refCh, attCh, langCh, q) ==
  LET w0 == [store |-> st, threw |-> FALSE]
      w1 == IF refCh THEN setItem(w0, "memref", n.reference, q) ELSE w0
      w2 == IF attCh THEN setItem(w1, "memattempt", n.attempt, q) ELSE w1
      w3 == IF langCh THEN setItem(w2, "memlang", n.lang, q) ELSE w2
  IN w3

\* the effect of useTimer, deps [active]: when it is scheduled (`active`
\* changed, or the component mounted), the cleanup of its last run clears
\* the interval that run registered and the new run registers one if active
timerEffect(scheduled, active, iv) == IF scheduled THEN active ELSE iv

\* which passive effects a commit schedules: those whose dependency changed
NoEffects == [reference |-> FALSE, attempt |-> FALSE, lang |-> FALSE,
              timer |-> FALSE]

\* a mount schedules every effect
MountEffects == [reference |-> TRUE, attempt |-> TRUE, lang |-> TRUE,
                 timer |-> TRUE]

\* React runs the scheduled effects e of the rendered state n: what they
\* leave in the store, whether a setItem threw, and the interval
flushPassiveEffects(e, n, st, iv, q) ==
  LET w == storageEffects(st, n, e.reference, e.attempt, e.lang, q)
  IN [store |-> w.store, threw |-> w.threw,
      interval |-> timerEffect(e.timer, n.started, iv)]

(***************************************************************************)
(* The component state and the handlers, as updates of it.                 *)
(***************************************************************************)
Cur == [reference |-> reference, attempt |-> attempt, hidden |-> hidden,
        started |-> started, opts |-> opts, seconds |-> seconds,
        queued |-> queued, lang |-> lang, hideWords |-> hideWords,
        showFeedback |-> showFeedback]

\* const reset = () => setSeconds(0).  An update of the interval callback
\* that is still in the queue is applied before this one when React renders
\* the queue, so the value rendered is 0 and that tick is lost.
reset(s) == [s EXCEPT !.seconds = 0, !.queued = FALSE]

\* a handleStart without reset()
handleStart_KeepsTime(s) ==
  [s EXCEPT !.hidden = TRUE, !.started = TRUE, !.attempt = <<>>]

handleStart(s) ==
  [reset(s) EXCEPT !.hidden = TRUE, !.started = TRUE, !.attempt = <<>>]

\* a handleReveal that also clears the attempt, as handleStart does
handleReveal_ClearsAttempt(s) ==
  [s EXCEPT !.hidden = FALSE, !.started = FALSE, !.attempt = <<>>]

\* a handleReveal without setStarted(false)
handleReveal_KeepsStarted(s) == [s EXCEPT !.hidden = FALSE]

handleReveal(s) == [s EXCEPT !.hidden = FALSE, !.started = FALSE]

\* a handleResetAll without reset()
handleResetAll_KeepsTime(s) ==
  [s EXCEPT !.reference = <<>>, !.attempt = <<>>, !.hidden = FALSE,
            !.started = FALSE]

\* a handleResetAll that also calls setOpts with the initial options
handleResetAll_ResetsOpts(s) ==
  [reset(s) EXCEPT !.reference = <<>>, !.attempt = <<>>, !.hidden = FALSE,
                   !.started = FALSE, !.opts = DefaultOpts]

handleResetAll(s) ==
  [reset(s) EXCEPT !.reference = <<>>, !.attempt = <<>>, !.hidden = FALSE,
                   !.started = FALSE]

setReference(s, v) == [s EXCEPT !.reference = v]

setAttempt(s, v) == [s EXCEPT !.attempt = v]

setIgnoreCase(s, b) == [s EXCEPT !.opts = [@ EXCEPT !.ignoreCase = b]]

setIgnorePunc(s, b) == [s EXCEPT !.opts = [@ EXCEPT !.ignorePunc = b]]

toggleLang(s) == [s EXCEPT !.lang = IF @ = LangEn THEN LangVi ELSE LangEn]

toggleHideWords(s) == [s EXCEPT !.hideWords = ~@]

toggleShowFeedback(s) == [s EXCEPT !.showFeedback = ~@]

\* the interval callback, rendered: setSeconds((s) => s + 1)
tick(s) == [s EXCEPT !.seconds = @ + 1, !.queued = FALSE]

\* the interval callback, its update queued and not rendered yet
queueTick(s) == [s EXCEPT !.queued = TRUE]

\* the state of a freshly loaded page: the useState initializers
initialState(st) ==
  [reference |-> getItemOr(st, "memref", DefaultRef),
   attempt |-> getItemOr(st, "memattempt", DefaultAttempt),
   hidden |-> FALSE, started |-> FALSE, opts |-> DefaultOpts, seconds |-> 0,
   queued |-> FALSE, lang |-> getItemOr(st, "memlang", LangEn),
   hideWords |-> FALSE, showFeedback |-> TRUE]

\* the events of which `last` records what held just before them
Recorded == {"start", "reveal", "resetAll"}

\* what `last` records: the event, whether a setItem threw in its commit,
\* and, for a start, a reveal and a resetAll, what held just before it
Event(op, threw) ==
  [op |-> op, threw |-> threw,
   wasHidden |-> op \in Recorded /\ hidden,
   hadReference |-> op \in Recorded /\ reference # <<>>,
   hadAttempt |-> op \in Recorded /\ attempt # <<>>,
   hadSeconds |-> op \in Recorded /\ seconds > 0]

\* {showFeedback && <Highlighter ... />}
Feedback(show, ref, att, o, hide) ==
  IF show THEN Highlighter(ref, att, o, hide) ELSE <<>>

\* the render of the component state n: the state cells, the useMemo value
\* and the nodes of the Highlighter
Render(n) ==
  /\ reference' = n.reference
  /\ attempt' = n.attempt
  /\ hidden' = n.hidden
  /\ started' = n.started
  /\ opts' = n.opts
  /\ seconds' = n.seconds
  /\ queued' = n.queued
  /\ lang' = n.lang
  /\ hideWords' = n.hideWords
  /\ showFeedback' = n.showFeedback
  /\ stats' = IF <<n.reference, n.attempt, n.opts>> = <<reference, attempt, opts>>
              THEN stats    \* useMemo: the dependencies did not change
              ELSE calcStats(n.reference, n.attempt, n.opts)
  /\ nodes' = IF <<n.showFeedback, n.reference, n.attempt, n.opts, n.hideWords>>
                  = <<showFeedback, reference, attempt, opts, hideWords>>
              THEN nodes    \* the same props give the same nodes
              ELSE Feedback(n.showFeedback, n.reference, n.attempt, n.opts,
                            n.hideWords)

\* what the effects leave at the end of a step.  w is the store, the
\* interval and whether an effect threw, after the effects that have run,
\* e the effects still scheduled.  An effect that throws unmounts the tree,
\* whose cleanups clear the interval.
Effects(w, e, op) ==
  /\ storage' = w.store
  /\ mounted' = ~w.threw
  /\ interval' = IF w.threw THEN FALSE ELSE w.interval
  /\ pending' = IF w.threw THEN NoEffects ELSE e
  /\ last' = Event(op, w.threw)
  /\ quota' = quota

\* the effects a render of n schedules after a render of the current state
scheduledBy(n) ==
  [reference |-> n.reference # reference, attempt |-> n.attempt # attempt,
   lang |-> n.lang # lang, timer |-> n.started # started]

\* a render of the mounted component after a state update, made by a
\* handler or by the interval callback.  Before it renders the update React runs the effects
\* still scheduled by the last commit (when one of them throws, the tree is
\* unmounted and the update is dropped: that step is FlushEffects).  Then
\* it renders n and schedules the effects whose dependencies changed, which
\* it runs either at the end of this commit or later: in between, the
\* interval callback can fire and the page can be closed.
Commit(n, op) ==
  LET f == flushPassiveEffects(pending, Cur, storage, interval, quota)
      e == scheduledBy(n)
  IN /\ ~f.threw
     /\ Render(n)
     /\ \/ Effects(flushPassiveEffects(e, n, f.store, f.interval, quota),
                   NoEffects, op)
        \/ e # NoEffects /\ Effects(f, e, op)

(***************************************************************************)
(* The session.                                                            *)
(***************************************************************************)
InitialUse == Len(DefaultRef) + Len(DefaultAttempt) + Len(LangEn)

\* a store that the first load just fills, and one with room for every edit
Quotas == {InitialUse, InitialUse + MaxEditLen}

\* the first load of the page, nothing stored: the commit of the first
\* render, the four mount effects scheduled, and the state after they have
\* run and stored the three initial values
Init ==
  /\ quota \in Quotas
  /\ reference = DefaultRef
  /\ attempt = DefaultAttempt
  /\ hidden = FALSE
  /\ started = FALSE
  /\ opts = DefaultOpts
  /\ seconds = 0
  /\ queued = FALSE
  /\ lang = LangEn
  /\ hideWords = FALSE
  /\ showFeedback = TRUE
  /\ interval = FALSE
  /\ \/ /\ pending = MountEffects
        /\ storage = EmptyStorage
     \/ /\ pending = NoEffects
        /\ storage = flushPassiveEffects(MountEffects,
                                          initialState(EmptyStorage),
                                          EmptyStorage, FALSE, quota).store
  /\ mounted = TRUE
  /\ stats = calcStats(DefaultRef, DefaultAttempt, DefaultOpts)
  /\ nodes = Feedback(TRUE, DefaultRef, DefaultAttempt, DefaultOpts, FALSE)
  /\ last = [op |-> "load", threw |-> FALSE, wasHidden |-> FALSE,
             hadReference |-> FALSE, hadAttempt |-> FALSE,
             hadSeconds |-> FALSE]

\* a reference textarea that is rendered whether hidden or not
ReferenceTextarea_Always == TRUE

\* {!hidden ? <textarea value={reference} onChange=... /> : <div>hidden</div>}
ReferenceTextarea == ~hidden

\* the reference textarea, rendered only while the reference is not hidden
ChangeReference ==
  /\ mounted /\ ReferenceTextarea
  /\ \E v \in SessionTexts :
       /\ v # reference
       /\ Commit(setReference(Cur, v), "changeReference")

ChangeAttempt ==
  /\ mounted
  /\ \E v \in SessionTexts :
       /\ v # attempt
       /\ Commit(setAttempt(Cur, v), "changeAttempt")

ChangeIgnoreCase ==
  /\ mounted
  /\ Commit(setIgnoreCase(Cur, ~opts.ignoreCase), "changeOpts")

ChangeIgnorePunc ==
  /\ mounted
  /\ Commit(setIgnorePunc(Cur, ~opts.ignorePunc), "changeOpts")

ClickLang == mounted /\ Commit(toggleLang(Cur), "clickLang")

\* the feedback button, which shows and hides the highlighted words
ClickFeedback == mounted /\ Commit(toggleShowFeedback(Cur), "clickFeedback")

\* {showFeedback && <button onClick={() => setHideWords((h) => !h)}>}
HideWordsButton == showFeedback

ClickHideWords ==
  mounted /\ HideWordsButton /\ Commit(toggleHideWords(Cur), "clickHideWords")

\* {!hidden ? <button onClick={handleStart}> : <button onClick={handleReveal}>}
StartButton == ~hidden

\* the start button, rendered while the reference is not hidden
ClickStart == mounted /\ StartButton /\ Commit(handleStart(Cur), "start")

\* the reveal button, rendered while the reference is hidden
ClickReveal == mounted /\ hidden /\ Commit(handleReveal(Cur), "reveal")

ClickResetAll == mounted /\ Commit(handleResetAll(Cur), "resetAll")

\* the interval fires, as long as it is registered: its callback updates
\* `seconds` whether or not `started` still holds.  React renders the update
\* inside the callback (a legacy root) ...
Tick ==
  /\ mounted /\ interval /\ ~queued
  /\ seconds < MaxSeconds
  /\ Commit(tick(Cur), "tick")

\* ... or queues it and renders it in a later task (a concurrent root), so
\* that a click or a change can be handled and rendered in between.  One
\* update is queued at a time: the render is due long before the next tick.
QueueTick ==
  /\ mounted /\ interval /\ ~queued
  /\ seconds < MaxSeconds
  /\ queued' = queueTick(Cur).queued
  /\ last' = Event("interval", FALSE)
  /\ UNCHANGED <<reference, attempt, hidden, started, opts, seconds, lang,
                 hideWords, showFeedback, interval, pending, storage, quota,
                 mounted, stats, nodes>>

\* React renders the queued update of the interval callback
RenderTick == mounted /\ queued /\ Commit(tick(Cur), "tick")

\* React runs the effects of the last commit (the scheduler's turn)
FlushEffects ==
  /\ mounted /\ pending # NoEffects
  /\ Effects(flushPassiveEffects(pending, Cur, storage, interval, quota),
             NoEffects, "flush")
  /\ UNCHANGED <<reference, attempt, hidden, started, opts, seconds, queued,
                 lang, hideWords, showFeedback, stats, nodes>>

\* the page is loaded again: effects still scheduled are lost with the old
\* page, the initializers read the store, no interval is registered, and
\* the mount effects, which write the initial values back, run at the end
\* of the first commit or later
Reload ==
  /\ Render(initialState(storage))
  /\ \/ Effects(flushPassiveEffects(MountEffects, initialState(storage),
                                    storage, FALSE, quota),
                NoEffects, "reload")
     \/ Effects([store |-> storage, threw |-> FALSE, interval |-> FALSE],
                MountEffects, "reload")

Next ==
  \/ ChangeReference
  \/ ChangeAttempt
  \/ ChangeIgnoreCase
  \/ ChangeIgnorePunc
  \/ ClickLang
  \/ ClickFeedback
  \/ ClickHideWords
  \/ ClickStart
  \/ ClickReveal
  \/ ClickResetAll
  \/ Tick
  \/ QueueTick
  \/ RenderTick
  \/ FlushEffects
  \/ Reload

Spec == Init /\ [][Next]_vars

(***************************************************************************)
(* The derived values on their own: a reference, an attempt and options    *)
(* are given, and one render computes the stats and the highlighted words. *)
(***************************************************************************)
InitRender ==
  /\ reference \in PureTexts
  /\ attempt \in PureTexts
  /\ opts \in AllOpts
  /\ hideWords = FALSE
  /\ showFeedback = TRUE
  /\ hidden = FALSE
  /\ started = FALSE
  /\ seconds = 0
  /\ queued = FALSE
  /\ lang = LangEn
  /\ interval = FALSE
  /\ pending = NoEffects
  /\ storage = EmptyStorage
  /\ quota = 0
  /\ mounted = FALSE
  /\ stats = [accuracy |-> 0, wordsTyped |-> 0, totalWords |-> 0]
  /\ nodes = <<>>
  /\ last = [op |-> "input", threw |-> FALSE, wasHidden |-> FALSE,
             hadReference |-> FALSE, hadAttempt |-> FALSE,
             hadSeconds |-> FALSE]

RenderOnce ==
  /\ last.op = "input"
  /\ stats' = calcStats(reference, attempt, opts)
  /\ nodes' = Feedback(showFeedback, reference, attempt, opts, hideWords)
  /\ last' = [last EXCEPT !.op = "render"]
  /\ UNCHANGED <<reference, attempt, hidden, started, opts, seconds, queued,
                 lang, hideWords, showFeedback, interval, pending, storage,
                 quota, mounted>>

NextRender == RenderOnce

SpecRender == InitRender /\ [][NextRender]_vars

(***************************************************************************)
(* Two attempts against one reference: a reference, an attempt and options *)
(* are given and rendered, then the attempt is typed over once and         *)
(* rendered again; `last` keeps the attempt replaced and its accuracy.     *)
(***************************************************************************)
\* a word that the two options change, and the word they change it to
CompareWords == {<<"a">>, <<"A", ",">>}

\* the texts of up to n of these words, one space between two words
RECURSIVE WordTextsUpTo(_, _)
WordTextsUpTo(words, n) ==
  IF n = 0 THEN {<<>>}
  ELSE LET shorter == WordTextsUpTo(words, n - 1)
       IN shorter \cup words
          \cup {t \o <<" ">> \o w : t \in shorter \ {<<>>}, w \in words}

CompareTexts == WordTextsUpTo(CompareWords, MaxWords)

InitCompare ==
  /\ reference \in CompareTexts
  /\ attempt \in CompareTexts
  /\ opts \in AllOpts
  /\ hideWords = FALSE
  /\ showFeedback = TRUE
  /\ hidden = FALSE
  /\ started = FALSE
  /\ seconds = 0
  /\ queued = FALSE
  /\ lang = LangEn
  /\ interval = FALSE
  /\ pending = NoEffects
  /\ storage = EmptyStorage
  /\ quota = 0
  /\ mounted = FALSE
  /\ stats = calcStats(reference, attempt, opts)
  /\ nodes = Feedback(showFeedback, reference, attempt, opts, hideWords)
  /\ last = [op |-> "render", prevAttempt |-> <<>>, prevAccuracy |-> 0]

\* the attempt is replaced by another text and the stats are computed anew
Retype ==
  /\ last.op = "render"
  /\ \E v \in CompareTexts :
       /\ v # attempt
       /\ attempt' = v
       /\ stats' = calcStats(reference, v, opts)
       /\ nodes' = Feedback(showFeedback, reference, v, opts, hideWords)
  /\ last' = [op |-> "retype", prevAttempt |-> attempt,
              prevAccuracy |-> stats.accuracy]
  /\ UNCHANGED <<reference, hidden, started, opts, seconds, queued, lang,
                 hideWords, showFeedback, interval, pending, storage, quota,
                 mounted>>

NextCompare == Retype

SpecCompare == InitCompare /\ [][NextCompare]_vars

TypeOK ==
  /\ hidden \in BOOLEAN /\ started \in BOOLEAN /\ interval \in BOOLEAN
  /\ mounted \in BOOLEAN /\ hideWords \in BOOLEAN /\ showFeedback \in BOOLEAN
  /\ queued \in BOOLEAN
  /\ opts \in AllOpts
  /\ seconds \in 0..MaxSeconds
  /\ lang \in {LangEn, LangVi}
  /\ quota \in Quotas
  /\ stats.accuracy \in 0..100
  /\ pending \in [reference : BOOLEAN, attempt : BOOLEAN, lang : BOOLEAN,
                  timer : BOOLEAN]

(***************************************************************************)
(* The session states of the specification: editing is reference visible  *)
(* and timer stopped, practicing is reference hidden and timer running.    *)
(* The reference is visible when `hidden` is off; the timer runs while its *)
(* interval is registered, which `started` asks for and the timer effect   *)
(* brings about.                                                           *)
(***************************************************************************)
\* both flags off, both flags on
EditingFlags == ~hidden /\ ~started

PracticingFlags == hidden /\ started

Editing == EditingFlags /\ ~interval

Practicing == PracticingFlags /\ interval

\* the commit that set `started` has scheduled the timer effect, which
\* registers the interval, and React has not run it yet
TimerStarting == mounted /\ started /\ pending.timer /\ ~interval

\* while the component is mounted and its effects have run, the store holds
\* what the state holds
StoreFollowsState ==
  (mounted /\ pending = NoEffects)
          => /\ storage["memref"] = [has |-> TRUE, value |-> reference]
             /\ storage["memattempt"] = [has |-> TRUE, value |-> attempt]
             /\ storage["memlang"] = [has |-> TRUE, value |-> lang]

\* the derived values are those of the current state
DerivedFollowState ==
  last.op # "input" =>
    /\ stats = calcStats(reference, attempt, opts)
    /\ nodes = Feedback(showFeedback, reference, attempt, opts, hideWords)

C2_ResetAllClears ==
  [][last'.op = "resetAll"
       => /\ mounted' /\ Editing'
          /\ reference' = <<>>
          /\ attempt' = <<>>
          /\ seconds' = 0]_vars

(***************************************************************************)
(* C3, as claimed: in every step of a session (a reload starts a new       *)
(* one), elapsed seconds stays the same, or a tick taken while practicing  *)
(* adds exactly 1, or start or resetAll sets it to 0.  So reveal keeps the *)
(* value, and a tick that fires after the session has left practicing      *)
(* changes nothing, however ticks interleave with start, reveal and        *)
(* resetAll.                                                               *)
(***************************************************************************)
C3_ElapsedSeconds ==
  [][last'.op # "reload"
       => \/ seconds' = seconds
          \/ /\ last'.op = "tick" /\ PracticingFlags
             /\ seconds' = seconds + 1
          \/ /\ last'.op \in {"start", "resetAll"}
             /\ seconds' = 0]_vars

(***************************************************************************)
(* C4, as claimed: the reference is editable exactly while the session is  *)
(* editing (reference visible), and every step that changes the reference  *)
(* text is taken from editing, never from practicing.                      *)
(***************************************************************************)
C4_ReferenceChangesOnlyWhileEditing ==
  /\ [](mounted => (ReferenceTextarea <=> EditingFlags))
  /\ [][(last'.op # "reload" /\ reference' # reference)
          => EditingFlags]_vars

(***************************************************************************)
(* C4, amended: the reference is editable exactly while the session is     *)
(* editing (reference visible), and every step of a session that changes   *)
(* the reference text is an edit taken from editing, or a resetAll, which  *)
(* empties it from either state, practicing included.                      *)
(***************************************************************************)
C4_ReferenceChangesByEditOrResetAll ==
  /\ [](mounted => (ReferenceTextarea <=> EditingFlags))
  /\ [][(last'.op # "reload" /\ reference' # reference)
          => \/ last'.op = "changeReference" /\ EditingFlags
             \/ last'.op = "resetAll" /\ reference' = <<>>]_vars

\* resetAll has just emptied a reference that was hidden
C4_Witness ==
  /\ last.op = "resetAll" /\ last.wasHidden /\ last.hadReference
  /\ reference = <<>>

(***************************************************************************)
(* C5: reveal changes neither the reference, nor the attempt, nor the      *)
(* options; and in a session that is already editing the update reveal     *)
(* makes changes nothing at all.                                           *)
(***************************************************************************)
C5_RevealKeepsTexts ==
  /\ [][last'.op = "reveal"
          => /\ reference' = reference
             /\ attempt' = attempt
             /\ opts' = opts]_vars
  /\ []((~hidden /\ ~started) => handleReveal(Cur) = Cur)

\* reveal has just been taken with an attempt typed and options chosen, and
\* the session is editing again
C5_Witness ==
  /\ last.op = "reveal" /\ last.wasHidden
  /\ attempt # <<>> /\ reference # <<>> /\ opts # DefaultOpts
  /\ Editing

(***************************************************************************)
(* C6, as claimed: a reload of the page gives back the reference, the      *)
(* attempt and the language the session had just before it; the default    *)
(* reference is used only when no value was stored.                        *)
(***************************************************************************)
C6_ReloadRestoresLatest ==
  [][(last'.op = "reload" /\ mounted)
       => /\ reference' = reference
          /\ attempt' = attempt
          /\ lang' = lang]_vars

(***************************************************************************)
(* C7, as claimed: a setItem that throws is tolerated, the session goes    *)
(* on: the component is still mounted after the step whose write failed.   *)
(***************************************************************************)
C7_WriteFailureTolerated == last.threw => mounted

(***************************************************************************)
(* C8, as claimed: calcStats gives totalWords = the number of normalized   *)
(* reference words, wordsTyped = the number of normalized attempt words,   *)
(* and accuracy = round(correct / max(1, totalWords) * 100), the integer   *)
(* nearest to that value (halves upwards), within 0..100, correct being    *)
(* the number of positions below both lengths where the two words are      *)
(* equal.  An empty reference gives totalWords 0 and accuracy 0; "one two  *)
(* three" against "one two" gives accuracy 67, wordsTyped 2, totalWords 3. *)
(***************************************************************************)
C8_CalcStats ==
  last.op = "render" =>
    LET refWords == splitWords(normalize(reference, opts))
        attWords == splitWords(normalize(attempt, opts))
        both == 1..(IF Len(refWords) < Len(attWords) THEN Len(refWords)
                    ELSE Len(attWords))
        correct == Cardinality({i \in both : refWords[i] = attWords[i]})
        total == IF Len(refWords) > 1 THEN Len(refWords) ELSE 1
    IN /\ stats.totalWords = Len(refWords)
       /\ stats.wordsTyped = Len(attWords)
       /\ stats.accuracy \in 0..100
       \* accuracy - 1/2 <= 100 * correct / total < accuracy + 1/2
       /\ (2 * stats.accuracy - 1) * total <= 200 * correct
       /\ 200 * correct < (2 * stats.accuracy + 1) * total
       /\ (refWords = <<>> => stats.totalWords = 0 /\ stats.accuracy = 0)
       /\ (reference = OneTwoThree /\ attempt = OneTwo
             => stats = [accuracy |-> 67, wordsTyped |-> 2, totalWords |-> 3])

(***************************************************************************)
(* C9, as claimed: when the attempt has the same normalized words as the   *)
(* reference, the classification has one entry per raw reference word and  *)
(* every entry is matched.                                                 *)
(***************************************************************************)
C9_EqualAttemptAllMatched ==
  (/\ last.op = "render"
   /\ splitWords(normalize(attempt, opts)) = splitWords(normalize(reference, opts)))
    => /\ Len(nodes) = Len(splitWords(reference))
       /\ \A i \in 1..Len(nodes) : nodes[i].state = "ok"

(***************************************************************************)
(* C10, as claimed: resetAll resets the options too: after it ignoreCase   *)
(* and ignorePunc have their initial values.                               *)
(***************************************************************************)
C10_ResetAllResetsOptions ==
  [][last'.op = "resetAll" => opts' = DefaultOpts]_vars

(***************************************************************************)
(* C10, amended: resetAll empties the two texts and leaves the options as  *)
(* the user had selected them.                                             *)
(***************************************************************************)
C10_ResetAllKeepsOptions ==
  [][last'.op = "resetAll"
       => /\ opts' = opts
          /\ reference' = <<>>
          /\ attempt' = <<>>]_vars

\* resetAll has just been taken with options that are not the initial ones
C10_Witness ==
  /\ last.op = "resetAll" /\ last.hadReference /\ last.hadAttempt
  /\ opts # DefaultOpts
  /\ reference = <<>> /\ attempt = <<>>

(***************************************************************************)
(* C11: for a fixed reference and fixed options, an attempt that has at    *)
(* least as many positional matches with the reference as another attempt  *)
(* has an accuracy at least as high: accuracy never decreases when the     *)
(* number of positions with equal normalized words does not decrease.      *)
(***************************************************************************)
\* the number of positions at which the normalized words of att equal those
\* of ref
Matches(ref, att, o) ==
  LET refWords == splitWords(normalize(ref, o))
      attWords == splitWords(normalize(att, o))
  IN Cardinality({i \in 1..Len(refWords) :
                    i <= Len(attWords) /\ refWords[i] = attWords[i]})

C11_AccuracyMonotone ==
  last.op = "retype" =>
    LET before == Matches(reference, last.prevAttempt, opts)
        after == Matches(reference, attempt, opts)
    IN /\ (before <= after => last.prevAccuracy <= stats.accuracy)
       /\ (after <= before => stats.accuracy <= last.prevAccuracy)

\* an attempt with one match out of three has been replaced by a longer one
\* with two, and the accuracy went up from 33 to 67
C11_Witness ==
  /\ last.op = "retype"
  /\ stats.totalWords = 3
  /\ Matches(reference, last.prevAttempt, opts) = 1
  /\ Matches(reference, attempt, opts) = 2
  /\ Len(last.prevAttempt) < Len(attempt)
  /\ last.prevAccuracy = 33 /\ stats.accuracy = 67

(***************************************************************************)
(* C12: hidden and started are equal in every reachable state, so the      *)
(* session is always in exactly one of editing (both false) and practicing *)
(* (both true), never in between; the start button is offered only while   *)
(* the session is editing; and once the timer effect of the last commit    *)
(* has run, the interval is registered exactly while started holds.        *)
(***************************************************************************)
C12_FlagsInLockstep ==
  /\ hidden = started
  /\ (EditingFlags \/ PracticingFlags)
  /\ ~(EditingFlags /\ PracticingFlags)
  /\ mounted => /\ (StartButton => EditingFlags)
                /\ (~pending.timer => interval = started)
                /\ (~pending.timer => (Editing \/ Practicing))

\* the session is practicing and the clock has ticked; the start button is
\* not offered
C12_Witness ==
  /\ mounted /\ Practicing /\ ~StartButton
  /\ last.op = "tick" /\ seconds > 0

====
